---- MODULE Spec2Model ----
(***************************************************************************)
(* A model of src/final_website/app.py: the progress ledger (UserProgress, *)
(* /save-progress, /remove-from-watching), the favorites ledger            *)
(* (UserFavorite, /toggle-favorite), the catalog document                  *)
(* (static/data/anime.json, /admin/add_anime) and the pages that read them *)
(* (/, /player, extract_drive_id).                                         *)
(*                                                                         *)
(* Each request handler is one action: Flask runs a handler to its         *)
(* response, and the handler's commit is the database's atomic step.       *)
(* /save-progress and /admin/add_anime are modelled a second time as two   *)
(* steps each (read, then write), one request per worker, for what happens *)
(* when the server's threads interleave them.                              *)
(* The ledger routes are @login_required: `user` is current_user.id of the *)
(* account that sends the request.                                         *)
(* Form fields are read with request.form.get(name, type=...), which gives *)
(* None for an absent or unparsable field; None is modelled by a value     *)
(* outside the numeric range of the model and Null by a text no field      *)
(* holds. Time positions are whole seconds, so that p < T * 0.5 is         *)
(* 2 * p < T (halving a double is exact); a heartbeat always carries a     *)
(* time_position, negative ones included.                                  *)
(***************************************************************************)
EXTENDS Integers, Sequences, FiniteSets

VARIABLES
    UserProgress,   \* the user_progress table: a set of rows
    UserFavorite,   \* the user_favorite table: a set of rows
    catalog,        \* what load_anime_data() returns: a sequence of titles
    admin,          \* session['admin']
    now,            \* datetime.utcnow(): one tick per request
    progress,       \* save_progress: the row found by the lookup (a set of 0 or 1 rows)
    favorite,       \* toggle_favorite: the row found by the lookup (a set of 0 or 1 rows)
    resp,           \* the response of the last request
    view,           \* what the last page rendered: index's continue_watching, player's download_url
    hb,             \* the /save-progress requests in flight, one per worker
    ap              \* the /admin/add_anime requests in flight, one per worker

vars == <<UserProgress, UserFavorite, catalog, admin, now, progress, favorite, resp,
          view, hb, ap>>

----------------------------------------------------------------------------
(* Bounds of the model *)

MaxUser == 1
MaxAnime == 1
MaxSeason == 1
MaxEpisode == 2
MaxPos == 2
MaxClock == 3
MaxEpisodeCount == 1
MaxWorker == 2

None == -100                \* Python's None in a numeric field
Null == "null"              \* Python's None (JSON null) in a text field
NoError == "ok"             \* the store works

Users == 1..MaxUser                     \* current_user.id of the logged-in account
AnimeIds == 0..MaxAnime                 \* anime_id as parsed by type=int
SeasonNumbers == 1..MaxSeason
EpisodeNumbers == 1..MaxEpisode
Positions == (0 - 1)..MaxPos            \* time_position as parsed by type=float
StoreErrors == {"OperationalError: database is locked"}
Titles == {"Naruto"}
Workers == 1..MaxWorker                 \* the server's workers: one request each at a time

----------------------------------------------------------------------------
(* The database *)

\* UserProgress.__table_args__: one row per (user, anime, season, episode)
ProgressKey(r) == <<r.user_id, r.anime_id, r.season_number, r.episode_number>>

\* The columns declared nullable=False hold a value
ProgressNotNull(r) ==
    /\ r.user_id # None
    /\ r.anime_id # None
    /\ r.season_number # None
    /\ r.episode_number # None

\* db.session.commit() of a user_progress table: the constraints the table declares
ProgressCommitOk(table) ==
    /\ \A r \in table : ProgressNotNull(r)
    /\ \A r1, r2 \in table : ProgressKey(r1) = ProgressKey(r2) => r1 = r2

\* UserProgress.query.filter_by(user_id, anime_id, season_number, episode_number):
\* a comparison with None is IS NULL, which no stored row satisfies
ProgressQuery(table, user, anime_id, season_number, episode_number) ==
    {r \in table : ProgressKey(r) = <<user, anime_id, season_number, episode_number>>}

FavoriteKey(r) == <<r.user_id, r.anime_id>>

FavoriteCommitOk(table) ==
    /\ \A r \in table : r.user_id # None /\ r.anime_id # None
    /\ \A r1, r2 \in table : FavoriteKey(r1) = FavoriteKey(r2) => r1 = r2

FavoriteQuery(table, user, anime_id) ==
    {r \in table : FavoriteKey(r) = <<user, anime_id>>}

----------------------------------------------------------------------------
(* Responses *)

Response(route, status, success, action, error) ==
    [route |-> route, status |-> status, success |-> success,
     action |-> action, error |-> error]

\* An exception no handler catches is answered by server_error (lines 749-756):
\* the error page, status 500, whatever the exception was. (The module is
\* modelled as a deployed application; under app.run(debug=True), line 767,
\* the debugger's page takes the place of this handler.)
Unhandled(route) ==
    Response(route, 500, FALSE, "", "")

----------------------------------------------------------------------------
(* /save-progress *)

\* lines 656-672: update the row found, or create one
Block1_NewRowDefault(found, user, anime_id, season_number, episode_number, time_position, completed, t) ==
    IF found # {}
    THEN LET row == CHOOSE r \in found : TRUE
         IN  [row EXCEPT !.time_position = time_position,
                         !.completed = completed,
                         !.last_watched = t]
    ELSE [user_id |-> user, anime_id |-> anime_id,
          season_number |-> season_number, episode_number |-> episode_number,
          time_position |-> 0, completed |-> completed,
          last_watched |-> t]

Block1_KeepFlag(found, user, anime_id, season_number, episode_number, time_position, completed, t) ==
    IF found # {}
    THEN LET row == CHOOSE r \in found : TRUE
         IN  [row EXCEPT !.time_position = time_position,
                         !.last_watched = t]
    ELSE [user_id |-> user, anime_id |-> anime_id,
          season_number |-> season_number, episode_number |-> episode_number,
          time_position |-> time_position, completed |-> completed,
          last_watched |-> t]

Block1(found, user, anime_id, season_number, episode_number, time_position, completed, t) ==
    IF found # {}
    THEN LET row == CHOOSE r \in found : TRUE
         IN  [row EXCEPT !.time_position = time_position,
                         !.completed = completed,
                         !.last_watched = t]
    ELSE [user_id |-> user, anime_id |-> anime_id,
          season_number |-> season_number, episode_number |-> episode_number,
          time_position |-> time_position, completed |-> completed,
          last_watched |-> t]

\* lines 674-689: `progress` is an object by now, so the branch of line 690 is
\* never taken; the row is the one Block1 left
Block2(row, time_position, completed, t) ==
    LET r1 == IF ~row.completed
              THEN [row EXCEPT !.time_position = time_position,
                               !.completed = completed]
              ELSE IF ~completed
                   THEN IF 2 * time_position < row.time_position
                        THEN [row EXCEPT !.completed = FALSE,
                                         !.time_position = time_position]
                        ELSE row
                   ELSE row
    IN  [r1 EXCEPT !.last_watched = t]

\* lines 648-702: the table the handler asks the store to commit
SaveProgressTable(table, user, anime_id, season_number, episode_number, time_position, completed, t) ==
    LET found == ProgressQuery(table, user, anime_id, season_number, episode_number)
        row == Block2(Block1(found, user, anime_id, season_number, episode_number,
                             time_position, completed, t),
                      time_position, completed, t)
    IN  (table \ found) \cup {row}

save_progress(user, anime_id, season_number, episode_number, time_position, completed, err) ==
    /\ now < MaxClock
    /\ now' = now + 1
    /\ LET found == ProgressQuery(UserProgress, user, anime_id, season_number, episode_number)
           table == SaveProgressTable(UserProgress, user, anime_id, season_number,
                                      episode_number, time_position, completed, now)
       IN  IF err # NoError
           THEN \* the store fails: nothing is committed, and nobody catches it
                /\ progress' = {}
                /\ UserProgress' = UserProgress
                /\ resp' = Unhandled("save_progress")
           ELSE /\ progress' = found
                /\ IF ProgressCommitOk(table)
                   THEN /\ UserProgress' = table
                        /\ resp' = Response("save_progress", 200, TRUE, "", "")
                   ELSE \* IntegrityError at the commit of line 702
                        /\ UserProgress' = UserProgress
                        /\ resp' = Unhandled("save_progress")
    /\ favorite' = {}
    /\ UNCHANGED <<UserFavorite, catalog, admin, view, hb, ap>>

----------------------------------------------------------------------------
(* /save-progress, step by step: the lookup of lines 648-653 and the commit *)
(* of line 702 are two statements of the store, and another worker's        *)
(* statements can come between them                                         *)

\* a worker that has no heartbeat in hand
IdleHeartbeat ==
    [pc |-> "idle", user |-> 0, anime_id |-> 0, season_number |-> 0,
     episode_number |-> 0, time_position |-> 0, completed |-> FALSE,
     found |-> {}, resp |-> Response("", 0, FALSE, "", "")]

\* the heartbeats between their lookup and their commit
InFlight == {w \in Workers : hb[w].pc = "looked_up"}

\* the flush of a row the session loaded: the UPDATE sets the columns whose
\* value the handler changed, and leaves the others as the table has them
UpdateRow(current, loaded, row) ==
    [current EXCEPT
        !.time_position = IF row.time_position # loaded.time_position
                          THEN row.time_position ELSE @,
        !.completed = IF row.completed # loaded.completed THEN row.completed ELSE @,
        !.last_watched = IF row.last_watched # loaded.last_watched
                         THEN row.last_watched ELSE @]

\* lines 640-653: the form is read and the row of the key is looked up
save_progress_lookup(w, user, anime_id, season_number, episode_number, time_position, completed) ==
    /\ hb[w].pc # "looked_up"
    /\ now + Cardinality(InFlight) < MaxClock
    /\ hb' = [hb EXCEPT ![w] =
                 [pc |-> "looked_up", user |-> user, anime_id |-> anime_id,
                  season_number |-> season_number, episode_number |-> episode_number,
                  time_position |-> time_position, completed |-> completed,
                  found |-> ProgressQuery(UserProgress, user, anime_id,
                                          season_number, episode_number),
                  resp |-> Response("", 0, FALSE, "", "")]]
    /\ UNCHANGED <<UserProgress, UserFavorite, catalog, admin, now, progress,
                   favorite, resp, view, ap>>

\* lines 655-703: the two blocks on the row the lookup gave, and the commit.
\* A new row is an INSERT, which the unique constraint refuses when the key
\* has a row by now; a loaded row is an UPDATE of the row of its key.
save_progress_commit(w) ==
    /\ hb[w].pc = "looked_up"
    /\ now' = now + 1
    /\ LET h == hb[w]
           row == Block2(Block1(h.found, h.user, h.anime_id, h.season_number,
                                h.episode_number, h.time_position, h.completed, now),
                         h.time_position, h.completed, now)
           current == ProgressQuery(UserProgress, h.user, h.anime_id,
                                    h.season_number, h.episode_number)
           table == IF h.found = {}
                    THEN UserProgress \cup {row}
                    ELSE (UserProgress \ current)
                         \cup {UpdateRow(r, l, row) : r \in current, l \in h.found}
           ok == /\ ProgressCommitOk(table)
                 /\ h.found # {} => current # {}
           answer == IF ok THEN Response("save_progress", 200, TRUE, "", "")
                     ELSE Unhandled("save_progress")
       IN  /\ UserProgress' = IF ok THEN table ELSE UserProgress
           /\ hb' = [hb EXCEPT ![w].pc = "answered", ![w].resp = answer]
           /\ progress' = h.found
           /\ resp' = answer
    /\ favorite' = {}
    /\ UNCHANGED <<UserFavorite, catalog, admin, view, ap>>

----------------------------------------------------------------------------
(* /remove-from-watching *)

\* line 623: `if anime_id:` is false for None and for 0
Truthy(n) == n # None /\ n # 0

\* lines 625-628: the bulk delete
RemoveRows(table, user, anime_id) ==
    {r \in table : ~(r.user_id = user /\ r.anime_id = anime_id)}

remove_from_watching(user, anime_id, err) ==
    /\ now < MaxClock
    /\ now' = now + 1
    /\ IF Truthy(anime_id)
       THEN IF err # NoError
            THEN \* except Exception as e: rollback, and str(e) in the answer
                 /\ UserProgress' = UserProgress
                 /\ resp' = Response("remove_from_watching", 400, FALSE, "", err)
            ELSE /\ UserProgress' = RemoveRows(UserProgress, user, anime_id)
                 /\ resp' = Response("remove_from_watching", 200, TRUE, "", "")
       ELSE /\ UserProgress' = UserProgress
            /\ resp' = Response("remove_from_watching", 200, FALSE, "", "ID anime manquant")
    /\ progress' = {}
    /\ favorite' = {}
    /\ UNCHANGED <<UserFavorite, catalog, admin, view, hb, ap>>

----------------------------------------------------------------------------
(* /toggle-favorite *)

\* lines 719-732: the table the handler asks the store to commit
ToggleTable_NoDelete(table, user, anime_id, t) ==
    LET found == FavoriteQuery(table, user, anime_id)
    IN  IF found # {}
        THEN table
        ELSE table \cup {[user_id |-> user, anime_id |-> anime_id, added_at |-> t]}

ToggleTable(table, user, anime_id, t) ==
    LET found == FavoriteQuery(table, user, anime_id)
    IN  IF found # {}
        THEN table \ found
        ELSE table \cup {[user_id |-> user, anime_id |-> anime_id, added_at |-> t]}

\* lines 723 and 732: the action reported
ToggleAction(found) == IF found # {} THEN "removed" ELSE "added"

toggle_favorite(user, anime_id, err) ==
    /\ now < MaxClock
    /\ now' = now + 1
    /\ LET found == FavoriteQuery(UserFavorite, user, anime_id)
           table == ToggleTable(UserFavorite, user, anime_id, now)
       IN  IF err # NoError
           THEN \* the store fails: nothing is committed, and nobody catches it
                /\ favorite' = {}
                /\ UserFavorite' = UserFavorite
                /\ resp' = Unhandled("toggle_favorite")
           ELSE /\ favorite' = found
                /\ IF FavoriteCommitOk(table)
                   THEN /\ UserFavorite' = table
                        /\ resp' = Response("toggle_favorite", 200, TRUE,
                                            ToggleAction(found), "")
                   ELSE \* IntegrityError at the commit of line 731
                        /\ UserFavorite' = UserFavorite
                        /\ resp' = Unhandled("toggle_favorite")
    /\ progress' = {}
    /\ UNCHANGED <<UserProgress, catalog, admin, view, hb, ap>>

----------------------------------------------------------------------------
(* extract_drive_id (lines 139-165). A locator is the text of an episode's  *)
(* video_url, character by character, so that the searches, the prefix test *)
(* and the split are computed as the code computes them.                    *)

\* the value of a video_url that the form did not carry (JSON null)
NullRef == <<"None">>

\* re.search(pattern, None) raises TypeError: expected string or bytes-like object
TypeError == <<"TypeError">>

\* [a-zA-Z0-9_-]
IdChars ==
    { "a", "b", "c", "d", "e", "f", "g", "h", "i", "j", "k", "l", "m",
      "n", "o", "p", "q", "r", "s", "t", "u", "v", "w", "x", "y", "z",
      "A", "B", "C", "D", "E", "F", "G", "H", "I", "J", "K", "L", "M",
      "N", "O", "P", "Q", "R", "S", "T", "U", "V", "W", "X", "Y", "Z",
      "0", "1", "2", "3", "4", "5", "6", "7", "8", "9", "_", "-" }

\* drive\.google\.com/file/d/
DriveFile ==
    <<"d", "r", "i", "v", "e", ".", "g", "o", "o", "g", "l", "e", ".",
      "c", "o", "m", "/", "f", "i", "l", "e", "/", "d", "/">>

\* drive\.google\.com/open\?id=
DriveOpen ==
    <<"d", "r", "i", "v", "e", ".", "g", "o", "o", "g", "l", "e", ".",
      "c", "o", "m", "/", "o", "p", "e", "n", "?", "i", "d", "=">>

Http ==
    <<"h", "t", "t", "p", ":", "/", "/">>

Https ==
    <<"h", "t", "t", "p", "s", ":", "/", "/">>

\* https://drive.google.com/uc?export=download&id=
DownloadPrefix ==
    <<"h", "t", "t", "p", "s", ":", "/", "/", "d", "r", "i", "v", "e",
      ".", "g", "o", "o", "g", "l", "e", ".", "c", "o", "m", "/", "u",
      "c", "?", "e", "x", "p", "o", "r", "t", "=", "d", "o", "w", "n",
      "l", "o", "a", "d", "&", "i", "d", "=">>

\* the placeholder of line 326
Placeholder == <<"#">>

RECURSIVE IdRun(_, _)
\* ([a-zA-Z0-9_-]+) from position j: the longest run of identifier characters
IdRun(url, j) ==
    IF j <= Len(url) /\ url[j] \in IdChars
    THEN <<url[j]>> \o IdRun(url, j + 1)
    ELSE <<>>

\* where in url the text `prefix` is followed by an identifier character
MatchStarts(url, prefix) ==
    {i \in 1..Len(url) :
        /\ i + Len(prefix) <= Len(url)
        /\ SubSeq(url, i, i + Len(prefix) - 1) = prefix
        /\ url[i + Len(prefix)] \in IdChars}

\* re.search(prefix + '([a-zA-Z0-9_-]+)', url): group 1 of the leftmost match,
\* or NullRef when nothing matches
Search(url, prefix) ==
    LET starts == MatchStarts(url, prefix)
    IN  IF starts = {}
        THEN NullRef
        ELSE LET i == CHOOSE k \in starts : \A m \in starts : k <= m
             IN  IdRun(url, i + Len(prefix))

\* url.startswith(prefix)
StartsWith(url, prefix) ==
    Len(url) >= Len(prefix) /\ SubSeq(url, 1, Len(prefix)) = prefix

RECURSIVE Split(_)
\* url.split('/')
Split(url) ==
    LET slashes == {i \in 1..Len(url) : url[i] = "/"}
    IN  IF slashes = {}
        THEN <<url>>
        ELSE LET i == CHOOSE k \in slashes : \A m \in slashes : k <= m
             IN  <<SubSeq(url, 1, i - 1)>> \o Split(SubSeq(url, i + 1, Len(url)))

\* line 160: len(part) > 20 and re.match(r'^[a-zA-Z0-9_-]+$', part)
LongId(part) ==
    Len(part) > 20 /\ \A i \in 1..Len(part) : part[i] \in IdChars

\* lines 158-165: the first part that looks like an identifier, or None
FirstLongId(parts) ==
    LET hits == {i \in 1..Len(parts) : LongId(parts[i])}
    IN  IF hits = {}
        THEN NullRef
        ELSE parts[CHOOSE k \in hits : \A m \in hits : k <= m]

extract_drive_id(url) ==
    IF url = NullRef
    THEN TypeError
    ELSE IF Search(url, DriveFile) # NullRef THEN Search(url, DriveFile)
    ELSE IF Search(url, DriveOpen) # NullRef THEN Search(url, DriveOpen)
    ELSE IF ~(StartsWith(url, Http) \/ StartsWith(url, Https)) THEN url
    ELSE FirstLongId(Split(url))

\* line 326: None and '' are false
DownloadUrl(file_id) ==
    IF file_id # NullRef /\ file_id # <<>>
    THEN DownloadPrefix \o file_id
    ELSE Placeholder

\* The locators of the model: a bare identifier, the two hosted-file shapes,
\* a URL that carries no identifier, a URL whose path has a long token, and
\* the empty text of a field left blank
BareId ==
    <<"1", "A", "b", "-", "_", "9">>

FileUrl == Https \o DriveFile \o BareId \o
    <<"/", "v", "i", "e", "w">>

OpenUrl == Http \o DriveOpen \o BareId

PlainUrl == Https \o
    <<"e", "x", "a", "m", "p", "l", "e", ".", "c", "o", "m", "/", "e",
      "p", "/", "1", ".", "m", "p", "4">>

LongToken ==
    <<"1", "A", "b", "C", "d", "E", "f", "G", "h", "I", "j", "K", "l",
      "M", "n", "O", "p", "Q", "r", "S", "t", "_", "-">>

TokenUrl == Https \o
    <<"c", "d", "n", ".", "i", "o", "/", "v", "/">>
    \o LongToken

\* what an episode_video_i field of the form can carry
VideoRefs == {BareId, FileUrl, OpenUrl, PlainUrl, TokenUrl, <<>>}

\* the field as request.form.get gives it: its text, or None when the form lacks it
VideoArgs == VideoRefs \cup {NullRef}

----------------------------------------------------------------------------
(* The catalog document and /admin/add_anime *)

\* a.get('id', 0): a title stored without an id counts as 0
GetId(a) == IF a.id = None THEN 0 ELSE a.id

\* max(...) of line 408
MaxId_Head(anime_data) == GetId(Head(anime_data))

RECURSIVE MaxId(_)
\* max(a.get('id', 0) for a in anime_data), for a non-empty anime_data
MaxId(anime_data) ==
    IF Len(anime_data) = 1
    THEN GetId(Head(anime_data))
    ELSE LET m == MaxId(Tail(anime_data))
         IN  IF GetId(Head(anime_data)) > m THEN GetId(Head(anime_data)) ELSE m

\* lines 405-408
NewId_Count(anime_data) == Len(anime_data) + 1

NewId(anime_data) ==
    IF anime_data # <<>> THEN MaxId(anime_data) + 1 ELSE 1

\* lines 410-418: request.form.get gives None for a field the form lacks
Episodes(episode_count, videos) ==
    [i \in 1..episode_count |-> [episode_number |-> i, video_url |-> videos[i]]]

\* lines 420-435
NewAnime(new_id, title, episode_count, videos) ==
    [id |-> new_id, title |-> title,
     seasons |-> <<[season_number |-> 1,
                    episodes |-> Episodes(episode_count, videos)]>>]

\* line 438
AppendAnime(anime_data, new_anime) == Append(anime_data, new_anime)

\* lines 111-124: save_anime_data writes the whole document, whatever the file held
SaveAnimeData_KeepStored(document, data) ==
    IF data = <<>> THEN document ELSE Append(document, data[Len(data)])

SaveAnimeData(document, data) == data

\* parse_ok: float(rating) and int(episode_count) succeed (lines 398, 400);
\* save_ok: save_anime_data returns True. When it fails the file is as it was, or
\* was truncated by open(..., 'w') and reads as [] (load_anime_data, lines 107-109)
add_anime(title, episode_count, videos, parse_ok, save_ok) ==
    /\ now < MaxClock
    /\ now' = now + 1
    /\ IF ~admin
       THEN /\ catalog' = catalog
            /\ resp' = Response("add_anime", 302, FALSE, "", "admin_login")
       ELSE IF ~parse_ok
       THEN /\ catalog' = catalog
            /\ resp' = Unhandled("add_anime")
       ELSE LET anime_data == AppendAnime(catalog,
                                  NewAnime(NewId(catalog), title, episode_count, videos))
            IN  IF save_ok
                THEN /\ catalog' = SaveAnimeData(catalog, anime_data)
                     /\ resp' = Response("add_anime", 200, TRUE, "", "Anime added successfully!")
                ELSE /\ catalog' \in {catalog, <<>>}
                     /\ resp' = Response("add_anime", 200, FALSE, "",
                                         "Error adding anime. Please try again.")
    /\ progress' = {}
    /\ favorite' = {}
    /\ UNCHANGED <<UserProgress, UserFavorite, admin, view, hb, ap>>

\* a worker that has no append in hand
IdleAppend ==
    [pc |-> "idle", loaded |-> <<>>, anime_data |-> <<>>,
     resp |-> Response("", 0, FALSE, "", "")]

\* the appends between their load and their save
Loaded == {w \in Workers : ap[w].pc = "loaded"}

\* /admin/add_anime, step by step: the document is read at line 403 and written
\* at line 439, and another worker's read or write can come between them.
\* lines 390-438, for a request of the admin session whose form parses
add_anime_load(w, title, episode_count, videos) ==
    /\ admin
    /\ ap[w].pc # "loaded"
    /\ now + Cardinality(Loaded) < MaxClock
    /\ ap' = [ap EXCEPT ![w] =
                 [pc |-> "loaded", loaded |-> catalog,
                  anime_data |-> AppendAnime(catalog,
                                    NewAnime(NewId(catalog), title, episode_count, videos)),
                  resp |-> Response("", 0, FALSE, "", "")]]
    /\ UNCHANGED <<UserProgress, UserFavorite, catalog, admin, now, progress,
                   favorite, resp, view, hb>>

\* lines 439-444
add_anime_save(w, save_ok) ==
    /\ ap[w].pc = "loaded"
    /\ now' = now + 1
    /\ LET answer == IF save_ok
                     THEN Response("add_anime", 200, TRUE, "", "Anime added successfully!")
                     ELSE Response("add_anime", 200, FALSE, "",
                                   "Error adding anime. Please try again.")
       IN  /\ IF save_ok
              THEN catalog' = SaveAnimeData(catalog, ap[w].anime_data)
              ELSE catalog' \in {catalog, <<>>}
           /\ ap' = [ap EXCEPT ![w].pc = "answered", ![w].resp = answer]
           /\ resp' = answer
    /\ progress' = {}
    /\ favorite' = {}
    /\ UNCHANGED <<UserProgress, UserFavorite, admin, view, hb>>

\* lines 362-374
admin_login(password_ok) ==
    /\ now < MaxClock
    /\ now' = now + 1
    /\ admin' = (admin \/ password_ok)
    /\ resp' = IF password_ok
               THEN Response("admin_login", 302, TRUE, "", "admin_panel")
               ELSE Response("admin_login", 200, FALSE, "", "Invalid password")
    /\ progress' = {}
    /\ favorite' = {}
    /\ UNCHANGED <<UserProgress, UserFavorite, catalog, view, hb, ap>>

\* lines 383-386
admin_logout ==
    /\ now < MaxClock
    /\ now' = now + 1
    /\ admin' = FALSE
    /\ resp' = Response("admin_logout", 302, TRUE, "", "index")
    /\ progress' = {}
    /\ favorite' = {}
    /\ UNCHANGED <<UserProgress, UserFavorite, catalog, view, hb, ap>>

----------------------------------------------------------------------------
(* The pages: / (index) and /player *)

\* what a page hands to its template
View(page, continue_watching, download_url, time_position) ==
    [page |-> page, continue_watching |-> continue_watching,
     download_url |-> download_url, time_position |-> time_position]

NoView == View("", <<>>, <<>>, 0)

\* next((x for x in xs if x[field] == value), None): the first hit, as a set
\* of no or one element
FirstAnime(anime_data, anime_id) ==
    LET hits == {i \in 1..Len(anime_data) : GetId(anime_data[i]) = anime_id}
    IN  IF hits = {} THEN {}
        ELSE {anime_data[CHOOSE k \in hits : \A m \in hits : k <= m]}

FirstSeason(anime, season_number) ==
    LET hits == {i \in 1..Len(anime.seasons) :
                    anime.seasons[i].season_number = season_number}
    IN  IF hits = {} THEN {}
        ELSE {anime.seasons[CHOOSE k \in hits : \A m \in hits : k <= m]}

FirstEpisode(season, episode_number) ==
    LET hits == {i \in 1..Len(season.episodes) :
                    season.episodes[i].episode_number = episode_number}
    IN  IF hits = {} THEN {}
        ELSE {season.episodes[CHOOSE k \in hits : \A m \in hits : k <= m]}

RECURSIVE OrderByLastWatchedDesc(_)
\* lines 179-183: .order_by(UserProgress.last_watched.desc()).all()
OrderByLastWatchedDesc(rows) ==
    IF rows = {} THEN <<>>
    ELSE LET r == CHOOSE x \in rows : \A y \in rows : y.last_watched <= x.last_watched
         IN  <<r>> \o OrderByLastWatchedDesc(rows \ {r})

\* lines 189-201: what one row adds to continue_watching: nothing, or one item
Item(anime_data, row) ==
    {[anime |-> anime, progress |-> row, season |-> season, episode |-> episode] :
        anime \in FirstAnime(anime_data, row.anime_id),
        season \in UNION {FirstSeason(a, row.season_number) :
                              a \in FirstAnime(anime_data, row.anime_id)},
        episode \in UNION {FirstEpisode(se, row.episode_number) :
                              se \in UNION {FirstSeason(a, row.season_number) :
                                               a \in FirstAnime(anime_data, row.anime_id)}}}

RECURSIVE ContinueWatching(_, _, _)
\* lines 186-202: the loop over the rows, newest first
ContinueWatching(anime_data, rows, processed_animes) ==
    IF rows = <<>> THEN <<>>
    ELSE LET row == Head(rows)
             item == IF row.anime_id \in processed_animes
                     THEN {} ELSE Item(anime_data, row)
         IN  IF item = {}
             THEN ContinueWatching(anime_data, Tail(rows), processed_animes)
             ELSE <<CHOOSE x \in item : TRUE>>
                  \o ContinueWatching(anime_data, Tail(rows),
                                      processed_animes \cup {row.anime_id})

\* lines 167-219, for a logged-in account
index(user) ==
    /\ now < MaxClock
    /\ now' = now + 1
    /\ view' = View("index",
                    ContinueWatching(catalog,
                        OrderByLastWatchedDesc({r \in UserProgress : r.user_id = user}),
                        {}),
                    <<>>, 0)
    /\ resp' = Response("index", 200, TRUE, "", "")
    /\ progress' = {}
    /\ favorite' = {}
    /\ UNCHANGED <<UserProgress, UserFavorite, catalog, admin, hb, ap>>

\* lines 297-360, for a logged-in account
player(user, anime_id, season_num, episode_num) ==
    /\ now < MaxClock
    /\ now' = now + 1
    /\ LET episode == UNION {FirstEpisode(se, episode_num) :
                                se \in UNION {FirstSeason(a, season_num) :
                                                 a \in FirstAnime(catalog, anime_id)}}
           found == ProgressQuery(UserProgress, user, anime_id, season_num, episode_num)
       IN  IF episode = {}
           THEN \* lines 305-321: no such title, season or episode
                /\ view' = View("404", <<>>, <<>>, 0)
                /\ resp' = Response("player", 404, FALSE, "", "")
                /\ progress' = {}
           ELSE LET file_id == extract_drive_id((CHOOSE e \in episode : TRUE).video_url)
                IN  IF file_id = TypeError
                    THEN \* line 325 raises, and nobody catches it
                         /\ view' = View("500", <<>>, <<>>, 0)
                         /\ resp' = Unhandled("player")
                         /\ progress' = {}
                    ELSE /\ view' = View("player", <<>>, DownloadUrl(file_id),
                                         IF found = {} THEN 0
                                         ELSE (CHOOSE r \in found : TRUE).time_position)
                         /\ resp' = Response("player", 200, TRUE, "", "")
                         /\ progress' = found
    /\ favorite' = {}
    /\ UNCHANGED <<UserProgress, UserFavorite, catalog, admin, hb, ap>>

----------------------------------------------------------------------------
(* The documents the server may find *)

\* a title as the document holds it
StoredTitle(id) ==
    [id |-> id, title |-> "Naruto",
     seasons |-> <<[season_number |-> 1, episodes |-> <<>>]>>]

\* a title with one season of MaxEpisode episodes, each with a locator
StoredSeries(id) ==
    [id |-> id, title |-> "Naruto",
     seasons |-> <<[season_number |-> 1,
                    episodes |-> [i \in 1..MaxEpisode |->
                                    [episode_number |-> i, video_url |-> FileUrl]]]>>]

\* a document with a title for every anime_id of the model
Library == [i \in 1..(MaxAnime + 1) |-> StoredSeries(i - 1)]

\* the documents static/data/anime.json may hold when the server starts
InitialCatalogs ==
    { <<>>, <<StoredTitle(3), StoredTitle(7)>>, <<StoredTitle(None)>>, Library }

----------------------------------------------------------------------------
(* The start: empty tables, no admin session, the document as found *)

Init ==
    /\ UserProgress = {}
    /\ UserFavorite = {}
    /\ catalog \in InitialCatalogs
    /\ admin = FALSE
    /\ now = 0
    /\ progress = {}
    /\ favorite = {}
    /\ resp = Response("", 0, FALSE, "", "")
    /\ view = NoView
    /\ hb = [w \in Workers |-> IdleHeartbeat]
    /\ ap = [w \in Workers |-> IdleAppend]

NextLedger ==
    \/ \E user \in Users, anime_id \in AnimeIds \cup {None},
          season_number \in SeasonNumbers \cup {None},
          episode_number \in EpisodeNumbers \cup {None},
          time_position \in Positions, completed \in BOOLEAN,
          err \in {NoError} \cup StoreErrors :
          save_progress(user, anime_id, season_number, episode_number,
                        time_position, completed, err)
    \/ \E user \in Users, anime_id \in AnimeIds \cup {None},
          err \in {NoError} \cup StoreErrors :
          remove_from_watching(user, anime_id, err)
    \/ \E user \in Users, anime_id \in AnimeIds \cup {None},
          err \in {NoError} \cup StoreErrors :
          toggle_favorite(user, anime_id, err)

NextCatalog ==
    \/ \E title \in Titles \cup {Null}, episode_count \in 0..MaxEpisodeCount,
          parse_ok \in BOOLEAN, save_ok \in BOOLEAN :
          \E videos \in [1..episode_count -> VideoArgs] :
             add_anime(title, episode_count, videos, parse_ok, save_ok)
    \/ \E password_ok \in BOOLEAN : admin_login(password_ok)
    \/ admin_logout

\* The ledgers' handlers neither read nor write the catalog document, so the
\* ledgers are explored over one document.
InitLedger == Init /\ catalog = <<>>

SpecLedger == InitLedger /\ [][NextLedger]_vars

\* The administrative handlers, over every initial document.
SpecCatalog == Init /\ [][NextCatalog]_vars

\* Heartbeats of valid keys over a store that works, lookup and commit as
\* separate steps of the workers.
NextHeartbeat ==
    \/ \E w \in Workers, user \in Users, anime_id \in AnimeIds,
          season_number \in SeasonNumbers, episode_number \in EpisodeNumbers,
          time_position \in Positions, completed \in BOOLEAN :
          save_progress_lookup(w, user, anime_id, season_number, episode_number,
                               time_position, completed)
    \/ \E w \in Workers : save_progress_commit(w)

SpecHeartbeat == InitLedger /\ [][NextHeartbeat]_vars

\* Appends of the admin session, load and save as separate steps of the workers.
NextAppend ==
    \/ \E w \in Workers, title \in Titles \cup {Null},
          episode_count \in 0..MaxEpisodeCount :
          \E videos \in [1..episode_count -> VideoArgs] :
             add_anime_load(w, title, episode_count, videos)
    \/ \E w \in Workers, save_ok \in BOOLEAN : add_anime_save(w, save_ok)
    \/ \E password_ok \in BOOLEAN : admin_login(password_ok)

SpecAppend == Init /\ [][NextAppend]_vars

\* The home page of an account over the library, between its heartbeats.
NextIndex ==
    \/ \E user \in Users, anime_id \in AnimeIds \cup {None},
          season_number \in SeasonNumbers \cup {None},
          episode_number \in EpisodeNumbers \cup {None},
          time_position \in Positions, completed \in BOOLEAN,
          err \in {NoError} \cup StoreErrors :
          save_progress(user, anime_id, season_number, episode_number,
                        time_position, completed, err)
    \/ \E user \in Users : index(user)

InitIndex == Init /\ catalog = Library

SpecIndex == InitIndex /\ [][NextIndex]_vars

\* The player page over the documents the administrative handlers write.
NextPlayer ==
    \/ NextCatalog
    \/ \E user \in Users, anime_id \in AnimeIds, season_num \in SeasonNumbers,
          episode_num \in EpisodeNumbers :
          player(user, anime_id, season_num, episode_num)

SpecPlayer == Init /\ [][NextPlayer]_vars

----------------------------------------------------------------------------
(* What the claims quantify over *)

AnimeArgs == AnimeIds \cup {None}
SeasonArgs == SeasonNumbers \cup {None}
EpisodeArgs == EpisodeNumbers \cup {None}
ErrArgs == {NoError} \cup StoreErrors

\* the rows of table other than those of key k
OtherRows(table, k) == {r \in table : ProgressKey(r) # k}

----------------------------------------------------------------------------
(* The progress ledger *)

\* C1: a heartbeat (p, completed=false) with p >= 0.5*T against a completed
\* entry with stored position T > 0 leaves the entry completed with time
\* position T.
C1_CompletedKeptOnScrub ==
    [][\A user \in Users, anime_id \in AnimeIds, season_number \in SeasonNumbers,
          episode_number \in EpisodeNumbers, p \in Positions :
          \A r \in UserProgress :
             ( /\ ProgressKey(r) = <<user, anime_id, season_number, episode_number>>
               /\ r.completed
               /\ r.time_position > 0
               /\ 2 * p >= r.time_position
               /\ save_progress(user, anime_id, season_number, episode_number,
                                p, FALSE, NoError) )
             => \E r2 \in UserProgress' :
                   /\ ProgressKey(r2) = ProgressKey(r)
                   /\ r2.completed
                   /\ r2.time_position = r.time_position]_vars

\* C2: a heartbeat reporting completed=true against a completed entry (stored
\* position >= 0) leaves the entry completed and its time position as stored,
\* whatever position (>= 0) it reports.
C2_CompletedPositionFrozen ==
    [][\A user \in Users, anime_id \in AnimeIds, season_number \in SeasonNumbers,
          episode_number \in EpisodeNumbers, p \in Positions :
          \A r \in UserProgress :
             ( /\ ProgressKey(r) = <<user, anime_id, season_number, episode_number>>
               /\ r.completed
               /\ r.time_position >= 0
               /\ p >= 0
               /\ save_progress(user, anime_id, season_number, episode_number,
                                p, TRUE, NoError) )
             => \E r2 \in UserProgress' :
                   /\ ProgressKey(r2) = ProgressKey(r)
                   /\ r2.completed
                   /\ r2.time_position = r.time_position]_vars

\* C3: a heartbeat (p, completed=false) with p < 0.5*T against a completed
\* entry with stored position T leaves that key with exactly one entry, not
\* completed, at time position p.
C3_RestartUncompletes ==
    [][\A user \in Users, anime_id \in AnimeIds, season_number \in SeasonNumbers,
          episode_number \in EpisodeNumbers, p \in Positions :
          \A r \in UserProgress :
             ( /\ ProgressKey(r) = <<user, anime_id, season_number, episode_number>>
               /\ r.completed
               /\ 2 * p < r.time_position
               /\ save_progress(user, anime_id, season_number, episode_number,
                                p, FALSE, NoError) )
             => /\ \E r2 \in UserProgress' : ProgressKey(r2) = ProgressKey(r)
                /\ \A r2 \in UserProgress' :
                      ProgressKey(r2) = ProgressKey(r)
                      => ~r2.completed /\ r2.time_position = p]_vars

\* C3's case has happened: the last heartbeat found a completed entry with
\* position T and left it not completed at a position below T/2.
C3_Witness ==
    /\ resp.route = "save_progress"
    /\ resp.success
    /\ \E f \in progress, r \in UserProgress :
          /\ f.completed
          /\ ProgressKey(r) = ProgressKey(f)
          /\ ~r.completed
          /\ 2 * r.time_position < f.time_position
          /\ r.time_position >= 0
          /\ r.last_watched = now - 1

\* C4: when the key has no entry, or its entry is not completed, a heartbeat
\* (p, c) leaves the key with exactly one entry, at time position p with
\* completed = c, and every other key's entries as they were.
C4_OverwriteOrCreate ==
    [][\A user \in Users, anime_id \in AnimeIds, season_number \in SeasonNumbers,
          episode_number \in EpisodeNumbers, p \in Positions, c \in BOOLEAN :
          LET k == <<user, anime_id, season_number, episode_number>>
          IN  ( /\ \A r \in UserProgress : ProgressKey(r) = k => ~r.completed
                /\ save_progress(user, anime_id, season_number, episode_number,
                                 p, c, NoError) )
              => /\ \E r2 \in UserProgress' : ProgressKey(r2) = k
                 /\ \A r2 \in UserProgress' :
                       ProgressKey(r2) = k => r2.time_position = p /\ r2.completed = c
                 /\ OtherRows(UserProgress', k) = OtherRows(UserProgress, k)]_vars

\* C4's case has happened: the last heartbeat found a non-completed entry and
\* overwrote its position and its flag.
C4_Witness ==
    /\ resp.route = "save_progress"
    /\ resp.success
    /\ \E f \in progress, r \in UserProgress :
          /\ ~f.completed
          /\ ProgressKey(r) = ProgressKey(f)
          /\ r.completed
          /\ r.time_position # f.time_position
          /\ r.last_watched = now - 1

\* C5: a heartbeat with a negative position or a missing title, season or
\* episode identifier is not persisted (the table is as it was) and is not
\* answered as a success.
C5_InvalidHeartbeatRejected ==
    [][\A user \in Users, anime_id \in AnimeArgs, season_number \in SeasonArgs,
          episode_number \in EpisodeArgs, p \in Positions, c \in BOOLEAN,
          err \in ErrArgs :
          ( /\ \/ p < 0
               \/ anime_id = None
               \/ season_number = None
               \/ episode_number = None
            /\ save_progress(user, anime_id, season_number, episode_number, p, c, err) )
          => /\ UserProgress' = UserProgress
             /\ ~resp'.success]_vars

\* C7: removeAllProgress(account, title), called when the account has
\* entries for the title, leaves no entry of that account for that title
\* and reports success.
C7_RemoveAllProgress ==
    [][\A user \in Users, anime_id \in AnimeIds :
          ( /\ \E r \in UserProgress : r.user_id = user /\ r.anime_id = anime_id
            /\ remove_from_watching(user, anime_id, NoError) )
          => /\ \A r \in UserProgress' : ~(r.user_id = user /\ r.anime_id = anime_id)
             /\ resp'.success]_vars

\* C10: a store failure during submitHeartbeat, toggleFavorite or
\* removeAllProgress leaves both ledgers as they were and is answered as a
\* failure whose text is not the store's error.
C10_StoreErrorGeneric ==
    [][\A user \in Users, anime_id \in AnimeIds, season_number \in SeasonNumbers,
          episode_number \in EpisodeNumbers, p \in Positions, c \in BOOLEAN,
          err \in StoreErrors :
          ( \/ save_progress(user, anime_id, season_number, episode_number, p, c, err)
            \/ toggle_favorite(user, anime_id, err)
            \/ (Truthy(anime_id) /\ remove_from_watching(user, anime_id, err)) )
          => /\ UserProgress' = UserProgress
             /\ UserFavorite' = UserFavorite
             /\ ~resp'.success
             /\ resp'.error \notin StoreErrors]_vars

----------------------------------------------------------------------------
(* The favorites ledger *)

\* C6: a toggleFavorite call deletes the pair's entry and reports 'removed'
\* when one exists, and otherwise creates exactly one and reports 'added',
\* leaving the other pairs alone; a call that follows the call that added
\* the pair reports 'removed' and leaves no entry for the pair.
C6_ToggleFavorite ==
    [][\A user \in Users, anime_id \in AnimeIds :
          toggle_favorite(user, anime_id, NoError)
          => LET before == FavoriteQuery(UserFavorite, user, anime_id)
                 after == FavoriteQuery(UserFavorite', user, anime_id)
             IN  /\ resp'.success
                 /\ before # {} => resp'.action = "removed" /\ after = {}
                 /\ before = {} => resp'.action = "added" /\ Cardinality(after) = 1
                 /\ UserFavorite' \ after = UserFavorite \ before
                 /\ ( /\ resp.route = "toggle_favorite"
                      /\ resp.action = "added"
                      /\ \E f \in before : f.added_at = now - 1 )
                    => resp'.action = "removed" /\ after = {}]_vars

\* C6's case has happened: the last call removed the entry that the call
\* right before it had added.
C6_Witness ==
    /\ resp.route = "toggle_favorite"
    /\ resp.success
    /\ resp.action = "removed"
    /\ \E f \in favorite :
          /\ f.added_at = now - 2
          /\ FavoriteQuery(UserFavorite, f.user_id, f.anime_id) = {}

----------------------------------------------------------------------------
(* The catalog *)

\* the identifiers the stored titles carry
ExistingIds(anime_data) ==
    {anime_data[i].id : i \in 1..Len(anime_data)} \ {None}

\* C8: an appendTitle that is saved stores the previous catalog followed by
\* the one new title, whose identifier is 1 for an empty catalog (and for one
\* whose titles carry no identifier), and otherwise exceeds the largest
\* existing identifier by exactly one; identifiers {3,7} give 8.
C8_AppendTitleId ==
    [][\A title \in Titles \cup {Null}, episode_count \in 0..MaxEpisodeCount :
          \A videos \in [1..episode_count -> VideoArgs] :
             (admin /\ add_anime(title, episode_count, videos, TRUE, TRUE))
             => LET ids == ExistingIds(catalog)
                    new == catalog'[Len(catalog')]
                IN  /\ resp'.success
                    /\ Len(catalog') = Len(catalog) + 1
                    /\ SubSeq(catalog', 1, Len(catalog)) = catalog
                    /\ new.title = title
                    /\ ids = {} => new.id = 1
                    /\ ids # {} => /\ \A i \in ids : i < new.id
                                   /\ new.id - 1 \in ids
                    /\ ids = {3, 7} => new.id = 8]_vars

\* C8's case has happened: a title was appended to the catalog with
\* identifiers 3 and 7 and got 8.
C8_Witness ==
    /\ resp.route = "add_anime"
    /\ resp.success
    /\ Len(catalog) = 3
    /\ catalog[1].id = 3
    /\ catalog[2].id = 7
    /\ catalog[3].id = 8

\* C9: an appendTitle whose title name is absent is answered as a failure
\* and adds no title to the catalog.
C9_AppendTitleValidates ==
    [][\A episode_count \in 0..MaxEpisodeCount, parse_ok \in BOOLEAN,
          save_ok \in BOOLEAN :
          \A videos \in [1..episode_count -> VideoArgs] :
             add_anime(Null, episode_count, videos, parse_ok, save_ok)
             => /\ ~resp'.success
                /\ Len(catalog') <= Len(catalog)]_vars

----------------------------------------------------------------------------
(* Heartbeats of several workers *)

\* the key a worker's heartbeat is for
HeartbeatKey(h) == <<h.user, h.anime_id, h.season_number, h.episode_number>>

\* C11: the table never holds two entries of one (account, title, season,
\* episode), and when two workers have each looked up a key that had no entry
\* and have each been answered, both answers are successes and the key has
\* exactly one entry.
C11_AtomicHeartbeats ==
    /\ \A r1, r2 \in UserProgress : ProgressKey(r1) = ProgressKey(r2) => r1 = r2
    /\ \A w1, w2 \in Workers :
          ( /\ w1 # w2
            /\ hb[w1].pc = "answered" /\ hb[w2].pc = "answered"
            /\ HeartbeatKey(hb[w1]) = HeartbeatKey(hb[w2])
            /\ hb[w1].found = {} /\ hb[w2].found = {}
            /\ hb[w1].time_position >= 0 /\ hb[w2].time_position >= 0 )
          => /\ hb[w1].resp.success /\ hb[w1].resp.status = 200
             /\ hb[w2].resp.success /\ hb[w2].resp.status = 200
             /\ Cardinality({r \in UserProgress :
                                ProgressKey(r) = HeartbeatKey(hb[w1])}) = 1

----------------------------------------------------------------------------
(* Appends of several workers *)

\* C12: in every reachable state, whatever the interleaving of the workers'
\* loads and saves, the identifiers of the stored titles grow along the
\* document: no two stored titles share an identifier, and an appended title's
\* identifier is greater than that of every title stored before it.
C12_UniqueIds ==
    \A i, j \in 1..Len(catalog) :
        i < j => GetId(catalog[i]) < GetId(catalog[j])

\* from the empty document, worker 2 loaded while worker 1 was between its load
\* and its save, both saved, and worker 2 saved last
C12_Witness ==
    /\ ap[1].pc = "answered" /\ ap[1].resp.success
    /\ ap[2].pc = "answered" /\ ap[2].resp.success
    /\ ap[1].loaded = <<>> /\ ap[2].loaded = <<>>
    /\ catalog = ap[2].anime_data
    /\ Len(catalog) = 1 /\ catalog[1].id = 1

\* C13: when a worker saves an append it built from the same document as an
\* append that another worker has saved with success in between, it reports
\* success too, and the stored catalog is the loaded document plus its own
\* title alone: the other worker's title is lost.
C13_LostUpdate ==
    [][\A w1, w2 \in Workers :
          ( /\ w1 # w2
            /\ ap[w1].pc = "answered" /\ ap[w1].resp.success
            /\ ap[w2].pc = "loaded"
            /\ ap[w2].loaded = ap[w1].loaded
            /\ catalog = ap[w1].anime_data
            /\ add_anime_save(w2, TRUE) )
          => /\ resp'.success /\ ap'[w2].resp.success /\ ap'[w1].resp.success
             /\ catalog' = ap[w2].anime_data
             /\ Len(catalog') = Len(ap[w1].loaded) + 1
             /\ SubSeq(catalog', 1, Len(ap[w1].loaded)) = ap[w1].loaded]_vars

\* two appends of different titles that both loaded before either saved, both
\* answered with success, and one title stored
C13_Witness ==
    \E w1, w2 \in Workers :
        /\ w1 # w2
        /\ ap[w1].pc = "answered" /\ ap[w1].resp.success
        /\ ap[w2].pc = "answered" /\ ap[w2].resp.success
        /\ ap[w1].loaded = ap[w2].loaded
        /\ ap[w1].anime_data # ap[w2].anime_data
        /\ catalog = ap[w2].anime_data
        /\ Len(catalog) = Len(ap[w1].loaded) + 1

----------------------------------------------------------------------------
(* The pages *)

\* C14: when the home page has just been rendered, every item of its
\* continue-watching list is an entry the account has in the table, none of
\* the listed entries is completed, and the items are ordered newest first.
C14_ContinueWatching ==
    (resp.route = "index" /\ view.page = "index")
    => LET cw == view.continue_watching
       IN  /\ \A i \in 1..Len(cw) :
                 /\ cw[i].progress \in UserProgress
                 /\ cw[i].progress.time_position >= 0 => ~cw[i].progress.completed
           /\ \A i, j \in 1..Len(cw) :
                 i < j => cw[i].progress.last_watched >= cw[j].progress.last_watched

\* C15: the player page of an episode the catalog holds is never answered by
\* the error page, whatever locator the episode has: it is rendered with a
\* download URL that carries an identifier, or with the placeholder '#'.
C15_ResolutionNeverFails ==
    (resp.route = "player" /\ resp.status # 404)
    => /\ resp.status = 200
       /\ view.page = "player"
       /\ \/ view.download_url = Placeholder
          \/ /\ StartsWith(view.download_url, DownloadPrefix)
             /\ Len(view.download_url) > Len(DownloadPrefix)

====
